---- MODULE Spec2Model ----
\* CSV-Viewer-Editor: the two programs of src/script.js as state machines.
\* The CSVEditor class (lines 1-442): every DOM event handler, Papa.parse
\* callback and setTimeout callback is one action; the callbacks in flight are
\* the bag `tasks`.  The CSVViewerEditor component (lines 444-690): every
\* event handler and FileReader callback is one action, its useState cells and
\* its useMemo cell are variables.
\* Row and column numbers are the 0-based JavaScript indices; TLA+ sequences
\* are 1-based, so cell (row, col) of a table t is t[row + 1][col + 1].
EXTENDS Integers, Sequences, FiniteSets, Bags, TLC

VARIABLES
    csvData,          \* this.csvData: the Table
    originalCsvData,  \* this.originalCsvData: the Baseline Table
    alias,            \* which arrays of csvData and originalCsvData are one object
    fileName,         \* this.fileName, a sequence of characters
    isEdited,         \* this.isEdited: the Edited Flag
    editedCells,      \* this.editedCells: the Dirty Set, keys <<row, col>>
    saveDisabled,     \* this.saveBtn.disabled
    resetDisabled,    \* this.resetBtn.disabled
    dom,              \* the grid renderTable last put in tableContainer
    tasks,            \* callbacks in flight: parses, timers
    baselineAtLoad,   \* history: the baseline the last completed load stored
    copiedByReset,    \* history: csvData is the copy resetChanges made (line 354)
    event,            \* history: the handler that ran last, its inputs and outputs
    viewCsvData,      \* CSVViewerEditor: csvData (useState)
    viewFileName,     \* CSVViewerEditor: fileName (useState)
    searchTerm,       \* CSVViewerEditor: searchTerm (useState)
    filterColumn,     \* CSVViewerEditor: filterColumn (useState)
    editingCell,      \* CSVViewerEditor: editingCell (useState)
    editValue,        \* CSVViewerEditor: editValue (useState)
    filteredData,     \* CSVViewerEditor: filteredData (useMemo)
    reads,            \* CSVViewerEditor: FileReaders whose onload is to come
    viewEvent         \* history: the CSVViewerEditor handler that ran last

\* the state of the CSVEditor
vars == <<csvData, originalCsvData, alias, fileName, isEdited, editedCells,
          saveDisabled, resetDisabled, dom, tasks, baselineAtLoad,
          copiedByReset, event>>

\* the state of the CSVViewerEditor
viewVars == <<viewCsvData, viewFileName, searchTerm, filterColumn, editingCell,
              editValue, filteredData, reads, viewEvent>>

-----------------------------------------------------------------------------
\* Bounds of the model.

\* Callbacks (parses and timers) in flight at one time.
MaxTasks == 1
\* Rows and columns of the tables SpecLoad, SpecFilter and SpecExport draw.
MaxRows == 3
MaxCols == 2

\* Cell texts: the empty string and two others.
Values == {"", "a", "b"}

\* The value JavaScript gives for a missing array element.
Undefined == "<undefined>"

-----------------------------------------------------------------------------
\* Tables.

\* row.every((cell) => cell === '')
AllEmpty(row) == \A j \in 1..Len(row) : row[j] = ""

\* Mutant of TrimTrailing: every row of empty strings is dropped, wherever it
\* stands (rows.filter((row) => row.some((cell) => cell !== ''))).
TrimTrailing_EveryEmptyRow(t) == SelectSeq(t, LAMBDA row : ~AllEmpty(row))

\* while (csvData.length > 0 && csvData[last].every(...)) csvData.pop()
RECURSIVE TrimTrailing(_)
TrimTrailing(t) ==
    IF Len(t) > 0 /\ AllEmpty(t[Len(t)])
    THEN TrimTrailing(SubSeq(t, 1, Len(t) - 1))
    ELSE t

\* t[row][col] as JavaScript reads it
Cell(t, row, col) ==
    IF row + 1 <= Len(t) /\ col + 1 <= Len(t[row + 1])
    THEN t[row + 1][col + 1]
    ELSE Undefined

\* while (this.csvData.length <= row) this.csvData.push([])
GrowRows(t, row) ==
    IF Len(t) <= row
    THEN t \o [i \in 1..(row + 1 - Len(t)) |-> <<>>]
    ELSE t

\* Mutant of GrowCols: the row grows by assignment past its end
\* (row[col] = newValue), which leaves holes instead of empty strings.
GrowCols_Holes(r, col) ==
    IF Len(r) <= col
    THEN r \o [j \in 1..(col + 1 - Len(r)) |-> Undefined]
    ELSE r

\* while (this.csvData[row].length <= col) this.csvData[row].push('')
GrowCols(r, col) ==
    IF Len(r) <= col
    THEN r \o [j \in 1..(col + 1 - Len(r)) |-> ""]
    ELSE r

\* lines 267-277: grow the table to hold (row, col), then store newValue
WriteCell(t, row, col, newValue) ==
    LET t1 == GrowRows(t, row)
        r1 == GrowCols(t1[row + 1], col)
    IN  [t1 EXCEPT ![row + 1] = [r1 EXCEPT ![col + 1] = newValue]]

\* Mutant of JSONClone: a shallow copy ([...t]), whose rows are the rows of t.
JSONClone_Shallow(t) == [data |-> t, alias |-> [outer |-> FALSE, rows |-> 1..Len(t)]]

\* JSON.parse(JSON.stringify(t)): equal strings in arrays that are all new
\* objects, so the copy shares nothing with t.
NoAlias == [outer |-> FALSE, rows |-> {}]

JSONClone(t) == [data |-> t, alias |-> NoAlias]

\* What a write through csvData into row `row` does to originalCsvData: the
\* same, for every array the two share.
OriginalAfterWrite(cur, orig, al, row) ==
    IF al.outer THEN cur
    ELSE IF (row + 1) \in al.rows /\ row + 1 <= Len(orig)
         THEN [orig EXCEPT ![row + 1] = cur[row + 1]]
         ELSE orig

\* lines 280-283: the baseline value at (row, col), '' when there is none
OriginalValue(orig, row, col) ==
    IF Cell(orig, row, col) # Undefined THEN Cell(orig, row, col) ELSE ""

\* `${row}:${col}`: one key per coordinate
CellKey(row, col) == <<row, col>>

-----------------------------------------------------------------------------
\* Character sequences (file names).

Str_csv == <<".", "c", "s", "v">>
Str_edited == <<"_", "e", "d", "i", "t", "e", "d">>
DefaultName == <<"e", "d", "i", "t", "e", "d", "_", "d", "a", "t", "a">> \o Str_csv

\* String.prototype.indexOf, 1-based, 0 when sub does not occur
IndexOf(s, sub) ==
    LET hits == {i \in 1..(Len(s) + 1) :
                    /\ i + Len(sub) - 1 <= Len(s)
                    /\ SubSeq(s, i, i + Len(sub) - 1) = sub}
    IN  IF hits = {} THEN 0 ELSE CHOOSE i \in hits : \A k \in hits : i <= k

\* String.prototype.includes
Includes(s, sub) == IndexOf(s, sub) # 0

\* String.prototype.replace with a string pattern: the first occurrence only
ReplaceFirst(s, sub, rep) ==
    LET i == IndexOf(s, sub)
    IN  IF i = 0 THEN s
        ELSE SubSeq(s, 1, i - 1) \o rep \o SubSeq(s, i + Len(sub), Len(s))

\* lines 399-403
FinalFilename(name, edited) ==
    LET filename == IF name = <<>> THEN DefaultName ELSE name
    IN  IF edited /\ ~Includes(filename, Str_edited)
        THEN ReplaceFirst(filename, Str_csv, Str_edited \o Str_csv)
        ELSE filename

-----------------------------------------------------------------------------
\* Papa.unparse(this.csvData) on cells that need no quoting: the fields of a
\* row joined by ",", the rows joined by "\r\n".  The text is a sequence of
\* tokens; an empty field contributes none.
RECURSIVE JoinFields(_)
JoinFields(row) ==
    IF Len(row) = 0 THEN <<>>
    ELSE LET field == IF row[1] = "" THEN <<>> ELSE <<row[1]>>
         IN  IF Len(row) = 1 THEN field
             ELSE field \o <<",">> \o JoinFields(Tail(row))

RECURSIVE Unparse(_)
Unparse(t) ==
    IF Len(t) = 0 THEN <<>>
    ELSE IF Len(t) = 1 THEN JoinFields(t[1])
    ELSE JoinFields(t[1]) \o <<"\r\n">> \o Unparse(Tail(t))

-----------------------------------------------------------------------------
\* The files the user can select: a name, and what Papa.parse makes of the
\* file (result.data, or a read error).

Name(c) == <<c>> \o Str_csv

\* a data row shorter than the two-column header, and a trailing empty row
FileA == [name |-> Name("a"), ok |-> TRUE,
          data |-> << <<"a", "b">>, <<"a">>, <<"">> >>]
\* nothing but one empty line
FileE == [name |-> Name("e"), ok |-> TRUE, data |-> << <<"">> >>]
\* a file the FileReader cannot read
FileX == [name |-> Name("a"), ok |-> FALSE, data |-> <<>>]

Files == {FileA, FileE, FileX}

\* event.target.files[0] when the dialog was cancelled
NoFile == [name |-> <<>>, ok |-> FALSE, data |-> <<>>]

-----------------------------------------------------------------------------
\* The rendered grid.

\* renderTable: the placeholder for an empty table, else one <td> for every
\* data row i >= 1 and every column j below the header row's length
Render(t) ==
    IF Len(t) = 0 THEN [rows |-> 0, cols |-> 0]
    ELSE [rows |-> Len(t), cols |-> Len(t[1])]

\* the (data-row, data-col) of the cells makeCellEditable was called on
RenderedCells(d) ==
    {<<r, c>> : r \in 1..(d.rows - 1), c \in 0..(d.cols - 1)}

\* The callbacks in flight.  A parse completes, and a timer fires, at any
\* time after it was started, so any of them may run next.
InFlight == BagCardinality(tasks)
Pending == BagToSet(tasks)
Started(e) == tasks (+) SetToBag({e})
Ended(e) == tasks (-) SetToBag({e})
Continued(e, next) == (tasks (-) SetToBag({e})) (+) SetToBag({next})

-----------------------------------------------------------------------------
\* CSVViewerEditor: editingCell === null
NoEditingCell == [row |-> -1, col |-> -1]

\* The state after the CSVEditor was constructed (lines 2-11).
Init ==
    /\ csvData = <<>>
    /\ originalCsvData = <<>>
    /\ alias = NoAlias
    /\ fileName = <<>>
    /\ isEdited = FALSE
    /\ editedCells = {}
    /\ saveDisabled \in BOOLEAN
    /\ resetDisabled \in BOOLEAN
    /\ dom = Render(<<>>)
    /\ tasks = EmptyBag
    /\ baselineAtLoad = <<>>
    /\ copiedByReset = FALSE
    /\ event = [op |-> "init"]
    \* the CSVViewerEditor after its first render (lines 460-465)
    /\ viewCsvData = <<>>
    /\ viewFileName = <<>>
    /\ searchTerm = <<>>
    /\ filterColumn = "all"
    /\ editingCell = NoEditingCell
    /\ editValue = <<>>
    /\ filteredData = <<>>
    /\ reads = {}
    /\ viewEvent = [op |-> "init"]

-----------------------------------------------------------------------------
\* Mutant of HandleFileUpload: "clear ... state for new file" also empties the
\* Table at the selection.
HandleFileUpload_ClearsTable(f) ==
    /\ IF f = NoFile
       THEN /\ event' = [op |-> "selectNone"]
            /\ UNCHANGED <<csvData, originalCsvData, alias, fileName, isEdited,
                           editedCells, saveDisabled, resetDisabled, dom, tasks,
                           baselineAtLoad, copiedByReset>>
       ELSE /\ fileName' = f.name
            /\ csvData' = <<>>
            /\ editedCells' = {}
            /\ isEdited' = FALSE
            /\ resetDisabled' = TRUE
            /\ tasks' = Started([kind |-> "parse", file |-> f])
            /\ event' = [op |-> "select"]
            /\ UNCHANGED <<originalCsvData, alias, saveDisabled, dom,
                           baselineAtLoad, copiedByReset>>
    /\ UNCHANGED viewVars

\* handleFileUpload, lines 70-93: the synchronous part of a file selection.
HandleFileUpload(f) ==
    /\ IF f = NoFile
       THEN /\ event' = [op |-> "selectNone"]
            /\ UNCHANGED <<csvData, originalCsvData, alias, fileName, isEdited,
                           editedCells, saveDisabled, resetDisabled, dom, tasks,
                           baselineAtLoad, copiedByReset>>
       ELSE /\ fileName' = f.name
            /\ editedCells' = {}
            /\ isEdited' = FALSE
            /\ resetDisabled' = TRUE
            /\ tasks' = Started([kind |-> "parse", file |-> f])
            /\ event' = [op |-> "select"]
            /\ UNCHANGED <<csvData, originalCsvData, alias, saveDisabled, dom,
                           baselineAtLoad, copiedByReset>>
    /\ UNCHANGED viewVars

\* Papa.parse's complete callback, lines 94-100 and 133-136: it only sets the
\* timer that will install result.data.
ParseComplete(e) ==
    /\ e.kind = "parse"
    /\ e.file.ok
    /\ tasks' = Continued(e, [kind |-> "install", data |-> e.file.data])
    /\ event' = [op |-> "parseComplete"]
    /\ UNCHANGED <<csvData, originalCsvData, alias, fileName, isEdited,
                   editedCells, saveDisabled, resetDisabled, dom,
                   baselineAtLoad, copiedByReset>>
    /\ UNCHANGED viewVars

\* Papa.parse's error callback, lines 154-159.
ParseError(e) ==
    /\ e.kind = "parse"
    /\ ~e.file.ok
    /\ tasks' = Ended(e)
    /\ event' = [op |-> "parseError", alert |-> "Error parsing CSV"]
    /\ UNCHANGED <<csvData, originalCsvData, alias, fileName, isEdited,
                   editedCells, saveDisabled, resetDisabled, dom,
                   baselineAtLoad, copiedByReset>>
    /\ UNCHANGED viewVars

\* The first timer of a load, lines 101-132: store the parsed rows without
\* their trailing empty rows, copy them as the baseline, set the render timer.
InstallData(e) ==
    /\ e.kind = "install"
    /\ LET trimmed == TrimTrailing(e.data)
           copy == JSONClone(trimmed)
       IN  /\ csvData' = trimmed
           /\ originalCsvData' = copy.data
           /\ alias' = copy.alias
           /\ baselineAtLoad' = copy.data
           /\ copiedByReset' = FALSE
    /\ tasks' = Continued(e, [kind |-> "render"])
    /\ event' = [op |-> "install", data |-> e.data]
    /\ UNCHANGED <<fileName, isEdited, editedCells, saveDisabled, resetDisabled, dom>>
    /\ UNCHANGED viewVars

\* The second timer of a load, lines 120-130.
RenderLoaded(e) ==
    /\ e.kind = "render"
    /\ dom' = Render(csvData)
    /\ saveDisabled' = FALSE
    /\ resetDisabled' = FALSE
    /\ tasks' = Ended(e)
    /\ event' = [op |-> "render"]
    /\ UNCHANGED <<csvData, originalCsvData, alias, fileName, isEdited,
                   editedCells, baselineAtLoad, copiedByReset>>
    /\ UNCHANGED viewVars

-----------------------------------------------------------------------------
\* finishEditing, lines 257-306, on a rendered cell with the input's text.

\* Mutant of EditedCellsAfterEdit: an edit log that only grows.
EditedCellsAfterEdit_NeverRemoves(cells, key, newValue, originalValue) ==
    cells \cup {key}

\* lines 288-302: the Dirty Set after the comparison with the baseline value
EditedCellsAfterEdit(cells, key, newValue, originalValue) ==
    IF newValue # originalValue THEN cells \cup {key} ELSE cells \ {key}

\* Mutant of IsEditedAfterEdit: an edit back to the baseline value clears the
\* flag without looking at the other edited cells.
IsEditedAfterEdit_IgnoresOthers(cells, newValue, originalValue) ==
    newValue # originalValue

\* lines 293 and 301: the Edited Flag, given the Dirty Set just updated
IsEditedAfterEdit(cells, newValue, originalValue) ==
    IF newValue # originalValue THEN TRUE ELSE Cardinality(cells) > 0

\* updateSaveButtonState, line 342
ResetBtnDisabled(edited, data) == ~edited \/ Len(data) = 0

\* lines 258-305: what finishEditing does to the tracker and the buttons
StoreEdit(row, col, newValue) ==
    /\ <<row, col>> \in RenderedCells(dom)
    /\ LET data == WriteCell(csvData, row, col, newValue)
           orig == OriginalAfterWrite(data, originalCsvData, alias, row)
           originalValue == OriginalValue(orig, row, col)
           cells == EditedCellsAfterEdit(editedCells, CellKey(row, col),
                                         newValue, originalValue)
           edited == IsEditedAfterEdit(cells, newValue, originalValue)
       IN  /\ csvData' = data
           /\ originalCsvData' = orig
           /\ editedCells' = cells
           /\ isEdited' = edited
           /\ resetDisabled' = ResetBtnDisabled(edited, data)
    /\ UNCHANGED <<alias, fileName, saveDisabled, dom, tasks, baselineAtLoad,
                   copiedByReset>>
    /\ UNCHANGED viewVars

\* finishEditing as the input's blur listener (line 308) or on Enter (line 311)
FinishEditing(row, col, newValue) ==
    /\ StoreEdit(row, col, newValue)
    /\ event' = [op |-> "edit", wasDirty |-> CellKey(row, col) \in editedCells]

\* Escape in the input of a rendered cell, lines 312-316, with `typed` in the
\* input: cell.textContent = originalValue removes the focused input from
\* the document.  Whether the removal fires the input's blur event differs
\* between browsers; when it does, the blur listener is finishEditing, which
\* reads input.value.
EscapeEditing(row, col, typed, blurFires) ==
    /\ <<row, col>> \in RenderedCells(dom)
    /\ IF blurFires
       THEN StoreEdit(row, col, typed)
       ELSE /\ UNCHANGED <<csvData, originalCsvData, alias, fileName, isEdited,
                           editedCells, saveDisabled, resetDisabled, dom, tasks,
                           baselineAtLoad, copiedByReset>>
            /\ UNCHANGED viewVars
    /\ event' = [op |-> "escape", blur |-> blurFires]

-----------------------------------------------------------------------------
\* Mutant of ResetChanges: editedCells is not cleared.
ResetChanges_KeepsDirtySet(confirmed) ==
    /\ ~resetDisabled
    /\ IF ~isEdited \/ Len(originalCsvData) = 0
       THEN /\ event' = [op |-> "reset", outcome |-> "nothingToReset"]
            /\ UNCHANGED <<csvData, originalCsvData, alias, isEdited,
                           editedCells, resetDisabled, dom, copiedByReset>>
       ELSE IF ~confirmed
       THEN /\ event' = [op |-> "reset", outcome |-> "declined"]
            /\ UNCHANGED <<csvData, originalCsvData, alias, isEdited,
                           editedCells, resetDisabled, dom, copiedByReset>>
       ELSE LET copy == JSONClone(originalCsvData)
            IN  /\ csvData' = copy.data
                /\ alias' = copy.alias
                /\ isEdited' = FALSE
                /\ dom' = Render(copy.data)
                /\ resetDisabled' = ResetBtnDisabled(FALSE, copy.data)
                /\ copiedByReset' = TRUE
                /\ event' = [op |-> "reset", outcome |-> "confirmed"]
                /\ UNCHANGED <<originalCsvData, editedCells>>
    /\ UNCHANGED <<fileName, saveDisabled, tasks, baselineAtLoad>>
    /\ UNCHANGED viewVars

\* Mutant of ResetChanges: the answer to confirm() is not looked at.
ResetChanges_NoConfirm(confirmed) ==
    /\ ~resetDisabled
    /\ IF ~isEdited \/ Len(originalCsvData) = 0
       THEN /\ event' = [op |-> "reset", outcome |-> "nothingToReset"]
            /\ UNCHANGED <<csvData, originalCsvData, alias, isEdited,
                           editedCells, resetDisabled, dom, copiedByReset>>
       ELSE LET copy == JSONClone(originalCsvData)
            IN  /\ csvData' = copy.data
                /\ alias' = copy.alias
                /\ editedCells' = {}
                /\ isEdited' = FALSE
                /\ dom' = Render(copy.data)
                /\ resetDisabled' = ResetBtnDisabled(FALSE, copy.data)
                /\ copiedByReset' = TRUE
                /\ event' = [op |-> "reset", outcome |-> "confirmed"]
                /\ UNCHANGED originalCsvData
    /\ UNCHANGED <<fileName, saveDisabled, tasks, baselineAtLoad>>
    /\ UNCHANGED viewVars

\* resetChanges, lines 345-363, from the reset button or Ctrl+R, both of which
\* need the button enabled.  `confirmed` is the user's answer to confirm().
ResetChanges(confirmed) ==
    /\ ~resetDisabled
    /\ IF ~isEdited \/ Len(originalCsvData) = 0
       THEN /\ event' = [op |-> "reset", outcome |-> "nothingToReset"]
            /\ UNCHANGED <<csvData, originalCsvData, alias, isEdited,
                           editedCells, resetDisabled, dom, copiedByReset>>
       ELSE IF ~confirmed
       THEN /\ event' = [op |-> "reset", outcome |-> "declined"]
            /\ UNCHANGED <<csvData, originalCsvData, alias, isEdited,
                           editedCells, resetDisabled, dom, copiedByReset>>
       ELSE LET copy == JSONClone(originalCsvData)
            IN  /\ csvData' = copy.data
                /\ alias' = copy.alias
                /\ editedCells' = {}
                /\ isEdited' = FALSE
                /\ dom' = Render(copy.data)
                /\ resetDisabled' = ResetBtnDisabled(FALSE, copy.data)
                /\ copiedByReset' = TRUE
                /\ event' = [op |-> "reset", outcome |-> "confirmed"]
                /\ UNCHANGED originalCsvData
    /\ UNCHANGED <<fileName, saveDisabled, tasks, baselineAtLoad>>
    /\ UNCHANGED viewVars

-----------------------------------------------------------------------------
\* saveCSV, lines 365-436, from the save button or Ctrl+S.

\* lines 365-383: the synchronous part
SaveCSV ==
    /\ ~saveDisabled
    /\ IF Len(csvData) = 0
       THEN /\ event' = [op |-> "save", outcome |-> "empty"]
            /\ UNCHANGED tasks
       ELSE /\ tasks' = Started([kind |-> "serialize"])
            /\ event' = [op |-> "save", outcome |-> "scheduled"]
    /\ UNCHANGED <<csvData, originalCsvData, alias, fileName, isEdited,
                   editedCells, saveDisabled, resetDisabled, dom,
                   baselineAtLoad, copiedByReset>>
    /\ UNCHANGED viewVars

\* Mutant of Serialize: the download timer is set before the statement that
\* throws.
Serialize_TimerBeforeThrow(e, throws) ==
    /\ e.kind = "serialize"
    /\ tasks' = Continued(e, [kind |-> "download",
                              blob |-> Unparse(csvData),
                              filename |-> FinalFilename(fileName, isEdited)])
    /\ IF throws
       THEN event' = [op |-> "serialize", threw |-> TRUE,
                      alert |-> "Error saving CSV"]
       ELSE event' = [op |-> "serialize", threw |-> FALSE]
    /\ UNCHANGED <<csvData, originalCsvData, alias, fileName, isEdited,
                   editedCells, saveDisabled, resetDisabled, dom,
                   baselineAtLoad, copiedByReset>>
    /\ UNCHANGED viewVars

\* The first timer of a save, lines 384-433: serialize inside try; what is
\* thrown there is caught and reported, and no download timer is set.
Serialize(e, throws) ==
    /\ e.kind = "serialize"
    /\ IF throws
       THEN /\ tasks' = Ended(e)
            /\ event' = [op |-> "serialize", threw |-> TRUE,
                         alert |-> "Error saving CSV"]
       ELSE /\ tasks' = Continued(e, [kind |-> "download",
                                      blob |-> Unparse(csvData),
                                      filename |-> FinalFilename(fileName, isEdited)])
            /\ event' = [op |-> "serialize", threw |-> FALSE]
    /\ UNCHANGED <<csvData, originalCsvData, alias, fileName, isEdited,
                   editedCells, saveDisabled, resetDisabled, dom,
                   baselineAtLoad, copiedByReset>>
    /\ UNCHANGED viewVars

\* Mutant of Download: the download also empties editedCells, as a load does.
Download_ClearsDirtySet(e) ==
    /\ e.kind = "download"
    /\ event' = [op |-> "download"]
    /\ isEdited' = FALSE
    /\ editedCells' = {}
    /\ resetDisabled' = ResetBtnDisabled(FALSE, csvData)
    /\ tasks' = Ended(e)
    /\ UNCHANGED <<csvData, originalCsvData, alias, fileName,
                   saveDisabled, dom, baselineAtLoad, copiedByReset>>
    /\ UNCHANGED viewVars

\* The second timer of a save, lines 410-423: saveAs, then clear the flag.
Download(e) ==
    /\ e.kind = "download"
    /\ event' = [op |-> "download"]
    /\ isEdited' = FALSE
    /\ resetDisabled' = ResetBtnDisabled(FALSE, csvData)
    /\ tasks' = Ended(e)
    /\ UNCHANGED <<csvData, originalCsvData, alias, fileName, editedCells,
                   saveDisabled, dom, baselineAtLoad, copiedByReset>>
    /\ UNCHANGED viewVars

-----------------------------------------------------------------------------
\* At most MaxTasks callbacks are in flight: a handler that would start one
\* more is not taken.
Next ==
    \/ \E f \in Files \cup {NoFile} :
          (f # NoFile => InFlight < MaxTasks) /\ HandleFileUpload(f)
    \/ \E e \in Pending : ParseComplete(e)
    \/ \E e \in Pending : ParseError(e)
    \/ \E e \in Pending : InstallData(e)
    \/ \E e \in Pending : RenderLoaded(e)
    \/ \E rc \in RenderedCells(dom), v \in Values : FinishEditing(rc[1], rc[2], v)
    \/ \E confirmed \in BOOLEAN : ResetChanges(confirmed)
    \/ (Len(csvData) # 0 => InFlight < MaxTasks) /\ SaveCSV
    \/ \E e \in Pending, throws \in BOOLEAN : Serialize(e, throws)
    \/ \E e \in Pending : Download(e)

-----------------------------------------------------------------------------
\* The load pipeline alone, on every parsed table within MaxRows and MaxCols:
\* the first file selected in a session and the callbacks of its load.

\* a parsed row has at least one cell; the trimming tells only '' from the rest
LoadValues == {"", "a"}
ParsedRows == UNION {[1..n -> LoadValues] : n \in 1..MaxCols}
ParsedTables == UNION {[1..n -> ParsedRows] : n \in 0..MaxRows}
LoadFiles == {[name |-> Name("a"), ok |-> TRUE, data |-> t] : t \in ParsedTables}

NextLoad ==
    \/ fileName = <<>> /\ \E f \in LoadFiles : HandleFileUpload(f)
    \/ \E e \in Pending : ParseComplete(e)
    \/ \E e \in Pending : InstallData(e)
    \/ \E e \in Pending : RenderLoaded(e)

-----------------------------------------------------------------------------
\* File selections that overlap: a file is selected while the parse or the
\* timers of an earlier selection are still to run.  FileA and FileE differ
\* in name and in content.

\* Loads (selections whose data is not yet rendered) in flight at one time.
MaxLoads == 2

NextLoads ==
    \/ \E f \in {FileA, FileE} : InFlight < MaxLoads /\ HandleFileUpload(f)
    \/ \E e \in Pending : ParseComplete(e)
    \/ \E e \in Pending : InstallData(e)
    \/ \E e \in Pending : RenderLoaded(e)

-----------------------------------------------------------------------------
\* One session of the CSVEditor with the file FileA: it is loaded, its cells
\* are edited, with the edit committed or cancelled, and it is reset and saved.
NextCancel ==
    \/ fileName = <<>> /\ HandleFileUpload(FileA)
    \/ \E e \in Pending : ParseComplete(e)
    \/ \E e \in Pending : InstallData(e)
    \/ \E e \in Pending : RenderLoaded(e)
    \/ \E rc \in RenderedCells(dom), v \in Values : FinishEditing(rc[1], rc[2], v)
    \/ \E rc \in RenderedCells(dom), v \in Values, blurFires \in BOOLEAN :
          EscapeEditing(rc[1], rc[2], v, blurFires)
    \/ \E confirmed \in BOOLEAN : ResetChanges(confirmed)
    \/ (Len(csvData) # 0 => InFlight < MaxTasks) /\ SaveCSV
    \/ \E e \in Pending : Serialize(e, FALSE)
    \/ \E e \in Pending : Download(e)

-----------------------------------------------------------------------------
\* One session of the CSVEditor with a file of any of these names: it is
\* loaded, edited and saved.  The handler takes whatever file the dialog
\* gives it and looks neither at its name nor at its type.

\* upper-case extension
Str_CSV == <<".", "C", "S", "V">>
FileNames == {Name("a"), <<"a">> \o Str_edited \o Str_csv, <<"a">> \o Str_CSV}
NamedFiles == {[name |-> n, ok |-> TRUE, data |-> FileA.data] : n \in FileNames}

NextNames ==
    \/ fileName = <<>> /\ \E f \in NamedFiles : HandleFileUpload(f)
    \/ \E e \in Pending : ParseComplete(e)
    \/ \E e \in Pending : InstallData(e)
    \/ \E e \in Pending : RenderLoaded(e)
    \/ \E rc \in RenderedCells(dom), v \in Values : FinishEditing(rc[1], rc[2], v)
    \/ (Len(csvData) # 0 => InFlight < MaxTasks) /\ SaveCSV
    \/ \E e \in Pending : Serialize(e, FALSE)
    \/ \E e \in Pending : Download(e)

-----------------------------------------------------------------------------
\* The CSVViewerEditor component (lines 444-690).  Its cell texts, search terms
\* and file names are sequences of characters.

\* a slot of a sparse array that holds no element
Hole == <<"<empty>">>

\* String.prototype.toLowerCase, on the letters the model's texts are made of
LowerOf(c) == CASE c = "A" -> "a" [] c = "B" -> "b" [] OTHER -> c
ToLowerCase(s) == [i \in 1..Len(s) |-> LowerOf(s[i])]

\* Number.prototype.toString and Number.parseInt on one decimal digit
Digits == <<"0", "1", "2", "3", "4", "5", "6", "7", "8", "9">>
IndexToString(n) == Digits[n + 1]
ParseInt(s) == CHOOSE n \in 0..(Len(Digits) - 1) : Digits[n + 1] = s

\* Mutant of CellMatches: the comparison without toLowerCase.
CellMatches_CaseSensitive(cell, term) == Includes(cell, term)

\* cell.toLowerCase().includes(searchTerm.toLowerCase())
CellMatches(cell, term) == Includes(ToLowerCase(cell), ToLowerCase(term))

\* Mutant of KeepRow: a row with no cell at the selected column is kept
\* (row[colIndex] === undefined || ...).
KeepRow_MissingCellKept(row, index, term, column) ==
    IF index = 0 THEN TRUE
    ELSE IF column = "all"
    THEN \E j \in 1..Len(row) : row[j] # Hole /\ CellMatches(row[j], term)
    ELSE LET colIndex == ParseInt(column)
         IN  \/ colIndex + 1 > Len(row)
             \/ row[colIndex + 1] = Hole
             \/ CellMatches(row[colIndex + 1], term)

\* lines 487-496, the callback of csvData.filter; Array.prototype.some skips
\* the holes of a sparse row, and row[colIndex]?. is undefined past its end
KeepRow(row, index, term, column) ==
    IF index = 0 THEN TRUE
    ELSE IF column = "all"
    THEN \E j \in 1..Len(row) : row[j] # Hole /\ CellMatches(row[j], term)
    ELSE LET colIndex == ParseInt(column)
         IN  /\ colIndex + 1 <= Len(row)
             /\ row[colIndex + 1] # Hole
             /\ CellMatches(row[colIndex + 1], term)

\* Array.prototype.filter from row `index` on: the kept rows, in their order
RECURSIVE FilterFrom(_, _, _, _)
FilterFrom(t, index, term, column) ==
    IF index >= Len(t) THEN <<>>
    ELSE (IF KeepRow(t[index + 1], index, term, column)
          THEN <<t[index + 1]>> ELSE <<>>)
         \o FilterFrom(t, index + 1, term, column)

\* lines 484-497, the function useMemo caches as filteredData
FilteredData(t, term, column) ==
    IF Len(t) = 0 \/ term = <<>> THEN t
    ELSE FilterFrom(t, 0, term, column)

\* Mutant of JsonObject: a column whose header value is already a key of the
\* object is skipped (if (!(header in obj)) ...).
RECURSIVE JsonObject_FirstWins(_, _, _, _)
JsonObject_FirstWins(headers, row, index, obj) ==
    IF index >= Len(headers) THEN obj
    ELSE LET header == headers[index + 1]
             cell == IF index + 1 <= Len(row) /\ row[index + 1] # Hole
                     THEN row[index + 1] ELSE <<>>
         IN  JsonObject_FirstWins(headers, row, index + 1,
                 IF header \in DOMAIN obj THEN obj ELSE (header :> cell) @@ obj)

\* lines 523-527: headers.forEach((header, index) => obj[header] = row[index] || "")
\* from column `index` on.  The object is a function from its keys; an
\* assignment to a key it has replaces the value.
RECURSIVE JsonObject(_, _, _, _)
JsonObject(headers, row, index, obj) ==
    IF index >= Len(headers) THEN obj
    ELSE LET header == headers[index + 1]
             cell == IF index + 1 <= Len(row) /\ row[index + 1] # Hole
                     THEN row[index + 1] ELSE <<>>
         IN  JsonObject(headers, row, index + 1, (header :> cell) @@ obj)

\* lines 521-528: jsonData, one object for every row after the header
JsonData(t) == [i \in 1..(Len(t) - 1) |-> JsonObject(t[1], t[i + 1], 0, <<>>)]

\* newData[rowIndex][colIndex] = value (line 501): an assignment past the end
\* of the row leaves holes before it
AssignCell(row, colIndex, value) ==
    IF colIndex + 1 <= Len(row) THEN [row EXCEPT ![colIndex + 1] = value]
    ELSE row \o [j \in 1..(colIndex - Len(row)) |-> Hole] \o <<value>>

-----------------------------------------------------------------------------
\* The files the user can give the CSVViewerEditor: a name, a MIME type, and
\* `rows`, the text split at "\n" and "," with every cell trimmed and unquoted
\* (lines 474-476), before the rows without text are filtered out.

Str_json == <<".", "j", "s", "o", "n">>
DefaultJsonName == <<"e", "x", "p", "o", "r", "t", "e", "d", "_", "d", "a", "t", "a">>
                   \o Str_json

T_Ab == <<"A", "b">>
T_c == <<"c">>

\* a data row shorter than the header, a blank line, a full data row
ViewFileA == [name |-> Name("a"), type |-> "text/csv",
              rows |-> << <<T_Ab, T_c>>, <<T_Ab>>, << <<>> >>, <<T_Ab, T_c>> >>]
\* nothing but a blank line
ViewFileE == [name |-> Name("e"), type |-> "text/csv", rows |-> << << <<>> >> >>]
\* a file of another type
ViewFileT == [name |-> Name("t"), type |-> "text/plain", rows |-> << <<T_c>> >>]
\* event.target.files?.[0] when the dialog was cancelled
ViewNoFile == [name |-> <<>>, type |-> "", rows |-> <<>>]

ViewFiles == {ViewFileA, ViewFileE, ViewFileT, ViewNoFile}

\* the texts typed into the search box and into a cell
TypedTerms == {<<>>, T_c}
EditTexts == {<<>>, T_c}

\* lines 608-613: the items of the column Select
ColumnOptions(t) ==
    {"all"} \cup (IF Len(t) = 0 THEN {}
                  ELSE {IndexToString(j) : j \in 0..(Len(t[1]) - 1)})

\* lines 636-662: the <Input> of the cell being edited is mounted, which it is
\* when editingCell names a cell of a displayed row.  While it has the focus,
\* a use of any other control blurs it first.
EditorShown ==
    /\ editingCell # NoEditingCell
    /\ editingCell.row + 1 <= Len(filteredData)
    /\ editingCell.col + 1 <= Len(filteredData[editingCell.row + 1])
    /\ filteredData[editingCell.row + 1][editingCell.col + 1] # Hole

\* useMemo(..., [csvData, searchTerm, filterColumn]): the cached value is
\* computed again at the render that follows a change of a dependency
UseMemo ==
    filteredData' =
        IF <<viewCsvData', searchTerm', filterColumn'>>
               # <<viewCsvData, searchTerm, filterColumn>>
        THEN FilteredData(viewCsvData', searchTerm', filterColumn')
        ELSE filteredData

-----------------------------------------------------------------------------
\* The handlers of the CSVViewerEditor.

\* handleFileUpload, lines 467-482, up to reader.readAsText(file)
ViewHandleFileUpload(f) ==
    /\ ~EditorShown
    /\ IF f # ViewNoFile /\ f.type = "text/csv"
       THEN /\ viewFileName' = f.name
            /\ reads' = reads \cup {f}
       ELSE UNCHANGED <<viewFileName, reads>>
    /\ viewEvent' = [op |-> "select"]
    /\ UNCHANGED <<viewCsvData, searchTerm, filterColumn, editingCell,
                   editValue, filteredData>>
    /\ UNCHANGED vars

\* reader.onload, lines 472-479: the rows that have some text become csvData
ReaderOnload(f) ==
    /\ f \in reads
    /\ reads' = reads \ {f}
    /\ viewCsvData' = SelectSeq(f.rows,
                          LAMBDA row : \E j \in 1..Len(row) : Len(row[j]) > 0)
    /\ viewEvent' = [op |-> "onload"]
    /\ UNCHANGED <<viewFileName, searchTerm, filterColumn, editingCell, editValue>>
    /\ UNCHANGED vars
    /\ UseMemo

\* Mutant of SetSearchTerm: the rows that do not match are removed from
\* csvData itself.
SetSearchTerm_InPlace(v) ==
    /\ Len(viewCsvData) > 0
    /\ ~EditorShown
    /\ searchTerm' = v
    /\ viewCsvData' = FilteredData(viewCsvData, v, filterColumn)
    /\ viewEvent' = [op |-> "search"]
    /\ UNCHANGED <<viewFileName, filterColumn, editingCell, editValue, reads>>
    /\ UNCHANGED vars
    /\ UseMemo

\* line 597: onChange of the search box, which the data view holds
SetSearchTerm(v) ==
    /\ Len(viewCsvData) > 0
    /\ ~EditorShown
    /\ searchTerm' = v
    /\ viewEvent' = [op |-> "search"]
    /\ UNCHANGED <<viewCsvData, viewFileName, filterColumn, editingCell,
                   editValue, reads>>
    /\ UNCHANGED vars
    /\ UseMemo

\* line 603: onValueChange of the column Select
SetFilterColumn(c) ==
    /\ Len(viewCsvData) > 0
    /\ ~EditorShown
    /\ c \in ColumnOptions(viewCsvData)
    /\ filterColumn' = c
    /\ viewEvent' = [op |-> "column"]
    /\ UNCHANGED <<viewCsvData, viewFileName, searchTerm, editingCell,
                   editValue, reads>>
    /\ UNCHANGED vars
    /\ UseMemo

\* lines 642-645: onClick of the cell at column colIndex of the displayed row
\* rowIndex, that is of filteredData.slice(1)[rowIndex].  A click into the
\* mounted <Input> reaches the cell's onClick as well.
ClickCell(rowIndex, colIndex) ==
    /\ rowIndex + 2 <= Len(filteredData)
    /\ colIndex + 1 <= Len(filteredData[rowIndex + 2])
    /\ filteredData[rowIndex + 2][colIndex + 1] # Hole
    /\ ~EditorShown \/ editingCell = [row |-> rowIndex + 1, col |-> colIndex]
    /\ editingCell' = [row |-> rowIndex + 1, col |-> colIndex]
    /\ editValue' = filteredData[rowIndex + 2][colIndex + 1]
    /\ viewEvent' = [op |-> "click"]
    /\ UNCHANGED <<viewCsvData, viewFileName, searchTerm, filterColumn,
                   filteredData, reads>>
    /\ UNCHANGED vars

\* line 650: onChange of the mounted <Input>
ChangeEditValue(v) ==
    /\ EditorShown
    /\ editValue' = v
    /\ viewEvent' = [op |-> "type"]
    /\ UNCHANGED <<viewCsvData, viewFileName, searchTerm, filterColumn,
                   editingCell, filteredData, reads>>
    /\ UNCHANGED vars

\* handleCellEdit, lines 499-504; newData[rowIndex] is a row of csvData
HandleCellEdit(rowIndex, colIndex, value) ==
    /\ rowIndex + 1 <= Len(viewCsvData)
    /\ viewCsvData' = [viewCsvData EXCEPT ![rowIndex + 1] =
                           AssignCell(viewCsvData[rowIndex + 1], colIndex, value)]
    /\ editingCell' = NoEditingCell
    /\ viewEvent' = [op |-> "edit"]
    /\ UNCHANGED <<viewFileName, searchTerm, filterColumn, editValue, reads>>
    /\ UNCHANGED vars
    /\ UseMemo

\* lines 651-655: onBlur of the mounted <Input>, or Enter in it, with the
\* rowIndex + 1 and colIndex of the cell that holds it
EditBlurOrEnter ==
    /\ EditorShown
    /\ HandleCellEdit(editingCell.row, editingCell.col, editValue)

\* lines 656-658: Escape in the mounted <Input>
EditEscape ==
    /\ EditorShown
    /\ editingCell' = NoEditingCell
    /\ viewEvent' = [op |-> "escape"]
    /\ UNCHANGED <<viewCsvData, viewFileName, searchTerm, filterColumn,
                   editValue, filteredData, reads>>
    /\ UNCHANGED vars

\* exportToJSON, lines 518-537, the handler of a button of the data view
ExportToJSON ==
    /\ Len(viewCsvData) > 0
    /\ ~EditorShown
    /\ viewEvent' =
           [op |-> "exportJSON",
            jsonData |-> JsonData(viewCsvData),
            download |-> LET name == ReplaceFirst(viewFileName, Str_csv, Str_json)
                         IN  IF name = <<>> THEN DefaultJsonName ELSE name]
    /\ UNCHANGED <<viewCsvData, viewFileName, searchTerm, filterColumn,
                   editingCell, editValue, filteredData, reads>>
    /\ UNCHANGED vars

NextView ==
    \/ \E f \in ViewFiles : ViewHandleFileUpload(f)
    \/ \E f \in ViewFiles : ReaderOnload(f)
    \/ \E v \in TypedTerms : SetSearchTerm(v)
    \/ \E c \in ColumnOptions(viewCsvData) : SetFilterColumn(c)
    \/ \E rowIndex \in 0..(Len(filteredData) - 2) :
          \E colIndex \in 0..(Len(filteredData[rowIndex + 2]) - 1) :
             ClickCell(rowIndex, colIndex)
    \/ \E v \in EditTexts : ChangeEditValue(v)
    \/ EditBlurOrEnter
    \/ EditEscape
    \/ ExportToJSON

\* The filter and the JSON export alone, on every table within MaxRows and
\* MaxCols that loads and edits can leave in csvData: a header row with some
\* text, any rows under it, and whatever column an earlier table left selected.
ViewTexts == {<<>>, T_Ab}
\* search terms that differ from the text in case, are part of it, are not
SearchTerms == {<<>>, <<"a", "B">>, <<"b">>, <<"b", "a">>}
ViewRows == UNION {[1..n -> ViewTexts] : n \in 1..MaxCols}
ViewTables ==
    {t \in UNION {[1..n -> ViewRows] : n \in 0..MaxRows} :
        Len(t) > 0 => \E j \in 1..Len(t[1]) : t[1][j] # <<>>}
AllColumns == {"all"} \cup {IndexToString(j) : j \in 0..(MaxCols - 1)}

NextFilter == \E v \in SearchTerms : SetSearchTerm(v)

-----------------------------------------------------------------------------
\* The specifications.

allVars == <<vars, viewVars>>

\* the CSVEditor; the CSVViewerEditor stays as it was constructed
Spec == Init /\ [][Next]_allVars

\* the load pipeline of the CSVEditor
SpecLoad == Init /\ [][NextLoad]_allVars

\* Init with both buttons of the CSVEditor disabled
InitView ==
    /\ csvData = <<>>
    /\ originalCsvData = <<>>
    /\ alias = NoAlias
    /\ fileName = <<>>
    /\ isEdited = FALSE
    /\ editedCells = {}
    /\ saveDisabled = TRUE
    /\ resetDisabled = TRUE
    /\ dom = Render(<<>>)
    /\ tasks = EmptyBag
    /\ baselineAtLoad = <<>>
    /\ copiedByReset = FALSE
    /\ event = [op |-> "init"]
    /\ viewCsvData = <<>>
    /\ viewFileName = <<>>
    /\ searchTerm = <<>>
    /\ filterColumn = "all"
    /\ editingCell = NoEditingCell
    /\ editValue = <<>>
    /\ filteredData = <<>>
    /\ reads = {}
    /\ viewEvent = [op |-> "init"]

\* overlapping loads of the CSVEditor
SpecLoads == Init /\ [][NextLoads]_allVars

\* cell edits committed or cancelled in the CSVEditor
SpecCancel == Init /\ [][NextCancel]_allVars

\* one file loaded, edited and saved in the CSVEditor
SpecNames == Init /\ [][NextNames]_allVars

\* the CSVViewerEditor; the CSVEditor stays as it was constructed
SpecView == InitView /\ [][NextView]_allVars

\* every table the filter and the export can be given, with the column an
\* earlier table left selected
InitFilter ==
    /\ csvData = <<>>
    /\ originalCsvData = <<>>
    /\ alias = NoAlias
    /\ fileName = <<>>
    /\ isEdited = FALSE
    /\ editedCells = {}
    /\ saveDisabled = TRUE
    /\ resetDisabled = TRUE
    /\ dom = Render(<<>>)
    /\ tasks = EmptyBag
    /\ baselineAtLoad = <<>>
    /\ copiedByReset = FALSE
    /\ event = [op |-> "init"]
    /\ viewCsvData \in ViewTables
    /\ viewFileName = Name("a")
    /\ searchTerm = <<>>
    /\ filterColumn \in AllColumns
    /\ editingCell = NoEditingCell
    /\ editValue = <<>>
    /\ filteredData = FilteredData(viewCsvData, searchTerm, filterColumn)
    /\ reads = {}
    /\ viewEvent = [op |-> "init"]

\* the filter of the CSVViewerEditor
SpecFilter == InitFilter /\ [][NextFilter]_allVars

\* the JSON export of the CSVViewerEditor
SpecExport == InitFilter /\ [][ExportToJSON]_allVars

-----------------------------------------------------------------------------
\* Coordinates and values the claims speak of.

\* the value at (row, col), a missing cell counting as the empty string
ValueAt(t, row, col) ==
    IF Cell(t, row, col) = Undefined THEN "" ELSE Cell(t, row, col)

\* the coordinates at which t holds a cell
Coords(t) == UNION {{<<r - 1, c - 1>> : c \in 1..Len(t[r])} : r \in 1..Len(t)}

\* no parse and no timer is in flight: every operation started has completed
Quiescent == tasks = EmptyBag

-----------------------------------------------------------------------------
\* C1 (stated as claimed; the code violates it).  Dirty-set correctness: once
\* the operations started have completed, a coordinate is in editedCells if
\* and only if the Table's value there differs from the Baseline Table's, a
\* missing cell counting as the empty string.
C1_DirtySetCorrect ==
    Quiescent =>
        \A rc \in Coords(csvData) \cup Coords(originalCsvData) \cup editedCells :
            (rc \in editedCells) <=>
                (ValueAt(csvData, rc[1], rc[2]) # ValueAt(originalCsvData, rc[1], rc[2]))

-----------------------------------------------------------------------------
\* C2 as claimed: in every reachable state isEdited is true if and only if
\* editedCells is non-empty.
C2_FlagIffDirty == isEdited <=> (editedCells # {})

\* C2 as amended: isEdited is true only if editedCells is non-empty, and right
\* after a file selection, a cell edit and a confirmed reset it is true exactly
\* if editedCells is non-empty; the download step of a save clears the flag
\* and leaves editedCells as it is.
C2_FlagAfterEdits ==
    /\ isEdited => editedCells # {}
    /\ (\/ event.op \in {"select", "edit"}
        \/ (event.op = "reset" /\ event.outcome = "confirmed"))
           => (isEdited <=> (editedCells # {}))
    /\ (event.op = "download") => ~isEdited

\* an edit put one of two dirty cells back to its baseline value: the flag
\* stays true for the other
C2_Witness ==
    /\ event.op = "edit"
    /\ event.wasDirty
    /\ Cardinality(editedCells) = 1
    /\ \E rc \in RenderedCells(dom) : rc \notin editedCells
    /\ isEdited

-----------------------------------------------------------------------------
\* C3.  Reversibility: a cell edit to a value other than the baseline value
\* puts the cell into editedCells, and an edit of that cell back to its
\* baseline value takes it out; if editedCells is then empty, isEdited is false.
C3_Reversibility ==
    [][event'.op = "edit" =>
         \A rc \in RenderedCells(dom), v \in Values :
            FinishEditing(rc[1], rc[2], v) =>
               LET base == ValueAt(originalCsvData, rc[1], rc[2])
               IN  /\ v # base => (rc \in editedCells' /\ isEdited')
                   /\ v = base => /\ rc \notin editedCells'
                                  /\ editedCells' = editedCells \ {rc}
                                  /\ (editedCells' = {} => ~isEdited')]_vars

\* the only dirty cell was just edited back to its baseline value
C3_Witness ==
    /\ event.op = "edit"
    /\ event.wasDirty
    /\ editedCells = {}
    /\ ~isEdited
    /\ csvData = originalCsvData

-----------------------------------------------------------------------------
\* C4.  Reset restores exactly: right after a confirmed reset the Table equals
\* the baseline the last completed load stored, editedCells is empty and
\* isEdited is false.
C4_ResetRestores ==
    (event.op = "reset" /\ event.outcome = "confirmed") =>
        /\ csvData = baselineAtLoad
        /\ originalCsvData = baselineAtLoad
        /\ editedCells = {}
        /\ ~isEdited

\* a confirmed reset of a loaded, non-empty table
C4_Witness ==
    /\ event.op = "reset"
    /\ event.outcome = "confirmed"
    /\ Len(csvData) > 1
    /\ copiedByReset

-----------------------------------------------------------------------------
\* C5.  A reset changes nothing when isEdited is false, when the Baseline
\* Table is empty, or when the user declines the confirmation; the Table is
\* replaced by a reset only when the user has confirmed.
C5_ResetNoOp ==
    [][event'.op = "reset" =>
         \A confirmed \in BOOLEAN :
            ResetChanges(confirmed) =>
               /\ (~isEdited \/ Len(originalCsvData) = 0 \/ ~confirmed)
                     => UNCHANGED <<csvData, originalCsvData, editedCells, isEdited>>
               /\ csvData' # csvData => confirmed]_vars

\* the user declined the reset of an edited table, which keeps its edits
C5_Witness ==
    /\ event.op = "reset"
    /\ event.outcome = "declined"
    /\ isEdited
    /\ editedCells # {}
    /\ csvData # originalCsvData

-----------------------------------------------------------------------------
\* C6.  Round trip of load: right after a load has stored the parsed table T,
\* the Table is T without its trailing rows of empty strings only, every other
\* row kept unchanged and in order, and the Baseline Table equals the Table.
C6_LoadRoundTrip ==
    event.op = "install" =>
        LET T == event.data
            emptyRow(i) == \A j \in 1..Len(T[i]) : T[i][j] = ""
        IN  /\ Len(csvData) <= Len(T)
            /\ \A i \in 1..Len(csvData) : csvData[i] = T[i]
            /\ \A i \in (Len(csvData) + 1)..Len(T) : emptyRow(i)
            /\ Len(csvData) > 0 => ~emptyRow(Len(csvData))
            /\ originalCsvData = csvData

\* a load kept an empty row that a later row follows, and removed the
\* trailing empty row
C6_Witness ==
    /\ event.op = "install"
    /\ Len(event.data) = 3
    /\ Len(csvData) = 2
    /\ csvData[1] = <<"", "">>
    /\ csvData[2] # <<"">>

-----------------------------------------------------------------------------
\* C7.  The Baseline Table is independent of the Table: only the step of a
\* load that stores the parsed table changes originalCsvData; no cell edit,
\* reset or save step does, also for the Table a reset has made.
C7_BaselineIndependent ==
    [][originalCsvData' = originalCsvData \/ (\E e \in Pending : InstallData(e))]_vars

\* a cell of the Table a reset made was edited, and the baseline is still the
\* one the load stored
C7_Witness ==
    /\ event.op = "edit"
    /\ copiedByReset
    /\ editedCells # {}
    /\ csvData # originalCsvData
    /\ originalCsvData = baselineAtLoad
    /\ Len(originalCsvData) > 0

-----------------------------------------------------------------------------
\* C8.  A cell edit at a rendered (row, col) always succeeds: afterwards the
\* Table holds the value at (row, col), every cell it held before at another
\* coordinate keeps its value, and every other cell it newly holds is the
\* empty string.
C8_SetCellGrows ==
    [][event'.op = "edit" =>
         \A rc \in RenderedCells(dom), v \in Values :
            FinishEditing(rc[1], rc[2], v) =>
               /\ rc \in Coords(csvData')
               /\ Cell(csvData', rc[1], rc[2]) = v
               /\ \A old \in Coords(csvData) \ {rc} :
                     Cell(csvData', old[1], old[2]) = Cell(csvData, old[1], old[2])
               /\ \A new \in Coords(csvData') \ (Coords(csvData) \cup {rc}) :
                     Cell(csvData', new[1], new[2]) = ""
               /\ Len(csvData') >= Len(csvData)]_vars

\* an edit of a cell still shown from the previous file grew the empty Table
\* by two rows and, in the second, by an empty-string cell before the value
C8_Witness ==
    /\ event.op = "edit"
    /\ Len(originalCsvData) = 0
    /\ Len(csvData) = 2
    /\ csvData[1] = <<>>
    /\ Len(csvData[2]) = 2
    /\ csvData[2][1] = ""
    /\ csvData[2][2] # ""

-----------------------------------------------------------------------------
\* C9.  Parse failure leaves the loaded data unchanged: neither the selection
\* of a file that fails to parse nor the parser's error callback changes the
\* Table or the Baseline Table.
C9_ParseFailureKeepsData ==
    [][event'.op \in {"select", "parseError"} =>
         ((\/ \E f \in Files : ~f.ok /\ HandleFileUpload(f)
           \/ \E e \in Pending : ParseError(e))
             => UNCHANGED <<csvData, originalCsvData>>)]_vars

\* the parser reported an error while an edited table was loaded
C9_Witness ==
    /\ event.op = "parseError"
    /\ Len(csvData) > 0
    /\ csvData # originalCsvData
    /\ originalCsvData = baselineAtLoad

-----------------------------------------------------------------------------
\* C10.  Export failure produces no file: when the serialization throws, the
\* user is notified, the export's callbacks end without a download timer (so
\* saveAs is not called for it), and the Table, editedCells, isEdited and the
\* save button keep their values.
C10_ExportFailure ==
    [][event'.op = "serialize" =>
         \A e \in Pending :
            Serialize(e, TRUE) =>
               /\ event'.alert = "Error saving CSV"
               /\ BagCardinality(tasks') = BagCardinality(tasks) - 1
               /\ \A d \in BagToSet(tasks') :
                     d.kind = "download" => CopiesIn(d, tasks') = CopiesIn(d, tasks)
               /\ UNCHANGED <<csvData, originalCsvData, editedCells, isEdited,
                              saveDisabled>>]_vars

\* the serialization of an edited table threw: nothing is in flight and the
\* edits are still unsaved
C10_Witness ==
    /\ event.op = "serialize"
    /\ event.threw
    /\ Quiescent
    /\ isEdited
    /\ editedCells # {}
    /\ ~saveDisabled

-----------------------------------------------------------------------------
\* What the claims about the CSVViewerEditor speak of.

\* the lower-case and upper-case forms of one letter
CasePairs == {{"a", "A"}, {"b", "B"}}
SameLetter(x, y) == x = y \/ {x, y} \in CasePairs

\* `text` contains `term`, case-insensitively
ContainsIgnoringCase(text, term) ==
    \E i \in 1..(Len(text) - Len(term) + 1) :
       \A k \in 1..Len(term) : SameLetter(text[i + k - 1], term[k])

\* row `row` matches the search: some cell of it contains the term when all
\* columns are searched, its cell at the selected column does otherwise
RowMatches(row, term, column) ==
    IF column = "all"
    THEN \E j \in 1..Len(row) : ContainsIgnoringCase(row[j], term)
    ELSE /\ ParseInt(column) + 1 <= Len(row)
         /\ ContainsIgnoringCase(row[ParseInt(column) + 1], term)

\* the rows of t a search shows: row 0, and the matching rows; all rows when
\* the term is empty
ShownIndices(t, term, column) ==
    {i \in 0..(Len(t) - 1) :
        i = 0 \/ term = <<>> \/ RowMatches(t[i + 1], term, column)}

\* the index in t of the row that is shown as row k
SourceIndex(t, term, column, k) ==
    CHOOSE i \in ShownIndices(t, term, column) :
        Cardinality({j \in ShownIndices(t, term, column) : j < i}) = k

-----------------------------------------------------------------------------
\* C11.  The filter returns, in table order, row 0 plus exactly those other
\* rows that match: with "all" the rows with some cell that contains
\* searchTerm case-insensitively, with a column index the rows whose cell at
\* that index does; with an empty searchTerm it returns every row.
C11_FilterKeepsMatches ==
    LET shown == ShownIndices(viewCsvData, searchTerm, filterColumn)
    IN  /\ Len(filteredData) = Cardinality(shown)
        /\ \A k \in 0..(Len(filteredData) - 1) :
              filteredData[k + 1] =
                  viewCsvData[SourceIndex(viewCsvData, searchTerm, filterColumn, k) + 1]
        /\ searchTerm = <<>> => filteredData = viewCsvData

\* a search in one column, in another case than the text, showed a data row
\* that stands after a row it hid
C11_Witness ==
    /\ viewEvent.op = "search"
    /\ searchTerm = <<"a", "B">>
    /\ filterColumn = "1"
    /\ Len(viewCsvData) = 3
    /\ filteredData = <<viewCsvData[1], viewCsvData[3]>>
    /\ viewCsvData[2] # viewCsvData[3]

-----------------------------------------------------------------------------
\* a row has a cell at the selected column
HasCellAt(row, column) ==
    /\ ParseInt(column) + 1 <= Len(row)
    /\ row[ParseInt(column) + 1] # Hole

\* C12 as stated.  For an empty table the filter returns an empty result, and
\* with a column selected, for any searchTerm, no row after the header that
\* has no cell at that column is in the result.
C12_MissingCellExcluded ==
    /\ Len(viewCsvData) = 0 => Len(filteredData) = 0
    /\ filterColumn # "all" =>
          \A k \in 2..Len(filteredData) : HasCellAt(filteredData[k], filterColumn)

\* C12, amended.  For an empty table the filter returns an empty result, and
\* with a column selected, for any searchTerm that is not empty, no row after
\* the header that has no cell at that column is in the result; with the
\* empty searchTerm every row is, whatever cells it has.
C12_MissingCellExcludedByTerm ==
    /\ Len(viewCsvData) = 0 => Len(filteredData) = 0
    /\ filterColumn # "all" /\ searchTerm # <<>> =>
          \A k \in 2..Len(filteredData) : HasCellAt(filteredData[k], filterColumn)
    /\ searchTerm = <<>> => filteredData = viewCsvData

\* a search in the second column hid a row that has one cell only, and showed
\* the row after it
C12_Witness ==
    /\ searchTerm # <<>>
    /\ filterColumn = "1"
    /\ Len(viewCsvData) = 3
    /\ Len(viewCsvData[2]) = 1
    /\ filteredData = <<viewCsvData[1], viewCsvData[3]>>

-----------------------------------------------------------------------------
\* C13.  Filtering has no side effects and no hidden state: a step that
\* changes the search term or the column, and so computes the filtered view
\* again, leaves the Table as it was, and in every state the view is the
\* function FilteredData of the current Table, search term and column alone,
\* whatever was computed before.
C13_FilterIsPure ==
    [][/\ (searchTerm' # searchTerm \/ filterColumn' # filterColumn)
             => viewCsvData' = viewCsvData
       /\ filteredData = FilteredData(viewCsvData, searchTerm, filterColumn)
       /\ filteredData' = FilteredData(viewCsvData', searchTerm', filterColumn')
      ]_allVars

\* a search hid a row of a table, which the table still holds
C13_Witness ==
    /\ viewEvent.op = "search"
    /\ searchTerm # <<>>
    /\ Len(viewCsvData) = 3
    /\ Len(filteredData) = 2

-----------------------------------------------------------------------------
\* row's cell at column j (1-based), the empty string when it has none
CellOrEmpty(row, j) == IF j <= Len(row) /\ row[j] # Hole THEN row[j] ELSE <<>>

\* the last column whose header value is that of column j
LastColumnOf(headers, j) ==
    CHOOSE m \in j..Len(headers) :
        /\ headers[m] = headers[j]
        /\ \A n \in (m + 1)..Len(headers) : headers[n] # headers[j]

\* C14 as stated.  The JSON export of a non-empty Table yields one object for
\* every data row, in row order and without the header row, and for every
\* data row and every header column j the row's object maps the header value
\* at column j to the row's cell at column j, or to the empty string when the
\* row has no cell there.
C14_JsonMapsEveryColumn ==
    viewEvent.op = "exportJSON" =>
        /\ Len(viewEvent.jsonData) = Len(viewCsvData) - 1
        /\ \A i \in 1..(Len(viewCsvData) - 1), j \in 1..Len(viewCsvData[1]) :
              /\ viewCsvData[1][j] \in DOMAIN viewEvent.jsonData[i]
              /\ viewEvent.jsonData[i][viewCsvData[1][j]]
                    = CellOrEmpty(viewCsvData[i + 1], j)

\* C14, amended.  The JSON export of a non-empty Table yields one object for
\* every data row, in row order and without the header row; the keys of a
\* row's object are the header values, and for every header column j the
\* object maps the header value at column j to the row's cell at the last
\* column that has this header value (column j itself when no later column
\* repeats it), or to the empty string when the row has no cell there.
C14_JsonMapsLastColumn ==
    viewEvent.op = "exportJSON" =>
        /\ Len(viewEvent.jsonData) = Len(viewCsvData) - 1
        /\ \A i \in 1..(Len(viewCsvData) - 1) :
              /\ DOMAIN viewEvent.jsonData[i]
                    = {viewCsvData[1][j] : j \in 1..Len(viewCsvData[1])}
              /\ \A j \in 1..Len(viewCsvData[1]) :
                    viewEvent.jsonData[i][viewCsvData[1][j]]
                       = CellOrEmpty(viewCsvData[i + 1],
                                     LastColumnOf(viewCsvData[1], j))

\* the export of a table whose two columns have one header value, with a row
\* whose cells under them differ and a row that has one cell only
C14_Witness ==
    /\ viewEvent.op = "exportJSON"
    /\ Len(viewCsvData) = 3
    /\ Len(viewCsvData[1]) = 2
    /\ viewCsvData[1][1] = viewCsvData[1][2]
    /\ viewCsvData[2] = <<T_Ab, <<>> >>
    /\ viewCsvData[3] = <<T_Ab>>
    /\ viewEvent.jsonData[2][T_Ab] = <<>>

-----------------------------------------------------------------------------
\* What the claims about file names speak of.

\* the place of the last "." of a name: its extension starts there
LastDot(name) ==
    CHOOSE i \in 1..Len(name) :
        name[i] = "." /\ \A k \in (i + 1)..Len(name) : name[k] # "."

\* the name with `_edited` immediately before its extension, unless the part
\* before the extension ends with it
WithEditedSuffix(name) ==
    LET stem == SubSeq(name, 1, LastDot(name) - 1)
        ext == SubSeq(name, LastDot(name), Len(name))
        n == Len(stem) - Len(Str_edited)
    IN  IF n >= 0 /\ SubSeq(stem, n + 1, Len(stem)) = Str_edited
        THEN name
        ELSE stem \o Str_edited \o ext

\* C15.  The file name a save suggests: when the table is serialized with
\* the Edited Flag set, the download that is scheduled has the file's name
\* with `_edited` immediately before its extension, unless the name already
\* carries that suffix; with the flag not set it has the file's name as it is.
C15_SuggestedFilename ==
    [][event'.op = "serialize" =>
         \A e \in Pending :
            Serialize(e, FALSE) =>
               \E d \in BagToSet(tasks') :
                  /\ d.kind = "download"
                  /\ CopiesIn(d, tasks') = CopiesIn(d, tasks) + 1
                  /\ d.filename = IF isEdited THEN WithEditedSuffix(fileName)
                                              ELSE fileName]_vars

-----------------------------------------------------------------------------
\* C16.  A CSV export changes neither the Table nor the Baseline Table nor
\* the Dirty Set: none of the steps of saveCSV (the click, the serialization,
\* the download) does.  The Edited Flag is what it changes: the download
\* step sets it to false whatever the Dirty Set holds, and the steps before
\* it leave it as it is.
C16_SaveFrame ==
    [][/\ event'.op \in {"save", "serialize", "download"}
             => UNCHANGED <<csvData, originalCsvData, editedCells>>
       /\ event'.op \in {"save", "serialize"} => UNCHANGED isEdited
       /\ event'.op = "download" => isEdited' = FALSE]_vars

\* a download step has cleared the flag of an edited table: the Dirty Set
\* still holds the edited cell
C16_Witness ==
    /\ event.op = "download"
    /\ ~isEdited
    /\ editedCells # {}
    /\ csvData # originalCsvData

-----------------------------------------------------------------------------
\* C17.  A load is atomic: in the state in which a load has installed its
\* Table and Baseline Table the Dirty Set is empty and the Edited Flag is
\* false, whatever was handled between the selection of the file and the
\* timer that installs the parsed data.
C17_LoadAtomic ==
    event.op = "install" => editedCells = {} /\ ~isEdited

-----------------------------------------------------------------------------
\* the file of the given name among the files that load
FileNamed(name) == CHOOSE f \in {FileA, FileE} : f.name = name

\* C18.  When files were selected one after the other and all their parses
\* and timers have run, in whatever order, the Table and the Baseline Table
\* are those of the file selected last, the one fileName names.
C18_LastSelectedWins ==
    Quiescent /\ fileName # <<>> =>
        /\ csvData = TrimTrailing(FileNamed(fileName).data)
        /\ originalCsvData = TrimTrailing(FileNamed(fileName).data)

-----------------------------------------------------------------------------
\* C19.  No edit is lost from the Edited Flag by an export: at every download
\* step, which clears the flag, the Table is the one that was serialized for
\* this export, so its text is the text the download carries, whatever was
\* handled between the serialization and the download step.
C19_FlagClearedForSavedTable ==
    [][event'.op = "download" =>
         \A e \in Pending :
            Download(e) => Unparse(csvData') = e.blob]_vars

-----------------------------------------------------------------------------
\* C20.  An edit in the filtered view changes the row it was made on: when
\* the edit of a cell of the k-th displayed data row is committed, the value
\* is written into the Table row that this displayed row was derived from,
\* and every other row of the Table stays as it was.
C20_EditWritesSourceRow ==
    [][viewEvent'.op = "edit" /\ EditBlurOrEnter =>
         LET source == SourceIndex(viewCsvData, searchTerm, filterColumn,
                                   editingCell.row)
         IN  /\ viewCsvData'[source + 1]
                   = AssignCell(viewCsvData[source + 1], editingCell.col, editValue)
             /\ \A i \in 1..Len(viewCsvData) :
                   i # source + 1 => viewCsvData'[i] = viewCsvData[i]]_allVars

-----------------------------------------------------------------------------
\* C21.  Cancelling a cell edit with Escape leaves the Table, the Dirty Set
\* and the Edited Flag unchanged, whatever text the input holds, and whether
\* or not the input's blur listener runs as the input is removed.
C21_EscapeChangesNothing ==
    [][event'.op = "escape" =>
         \A rc \in RenderedCells(dom), v \in Values, blurFires \in BOOLEAN :
            EscapeEditing(rc[1], rc[2], v, blurFires)
               => UNCHANGED <<csvData, editedCells, isEdited>>]_vars


-----------------------------------------------------------------------------
\* C22.  The Edited Flag gates the reset action: in every state reached by
\* completing a load (the loaded table is rendered), an edit, a reset (the
\* user confirmed it) or a save (the file is downloaded), the reset button
\* is enabled if and only if the Edited Flag is true and the Table is
\* non-empty.
C22_Completed ==
    \/ event.op \in {"render", "edit", "download"}
    \/ event.op = "reset" /\ event.outcome = "confirmed"

C22_ResetGatedByFlag ==
    C22_Completed => (~resetDisabled <=> (isEdited /\ Len(csvData) > 0))

====
